---- MODULE Spec2Model ----
(***************************************************************************)
(* PowerLog battery manager: the battery lifecycle kept by the React       *)
(* client (the App component of src/server.js, lines 140-744) over the     *)
(* in-memory inventory `batteries`, its localStorage copy and the charge   *)
(* modal, and the server's table behind it.  Every handler is one action:   *)
(* a handler runs synchronously up to its first await, the state update it *)
(* enqueues there is applied before the next user event is dispatched, and *)
(* its request is answered or fails within the same action; in a session   *)
(* with overlapped requests the answer is a step of its own, and the mount *)
(* of the component, with its fetch of the inventory, is a step as well.   *)
(***************************************************************************)
EXTENDS Integers, Sequences, FiniteSets, TLC

(***************************************************************************)
(* Bounds of the model.                                                    *)
(***************************************************************************)
\* identifiers generateSafeId hands out (batteries and charging events)
MaxIds == 3
\* largest numbers typed into the quantity and totalQuantity fields of the form
MaxQuantity == 2
MaxTotal == 3
\* batteries the inventory holds at once
MaxBatteries == 1
\* largest value the clock reaches
MaxClock == 2
\* cap on the counters a battery accumulates (inUse, chargeCycles)
MaxCount == 2
\* largest count in a row of a loaded inventory
MaxLoaded == 2
\* persistence requests followed in a session that follows the server
MaxRequests == 2
\* batteries the inventory holds at once in a session that follows the server
MaxSynced == 2

(***************************************************************************)
(* JavaScript values.  Numbers are integers; the three non-numbers that    *)
(* reach a numeric field are kept apart from every number of the model.    *)
(***************************************************************************)
UNDEFINED == -1000
NaN == -2000
NULL == -3000

PRIMARY == "Batterie"
BUTTON_CELL == "Knopfzelle"
RECHARGEABLE == "Akku"
Categories == {PRIMARY, BUTTON_CELL, RECHARGEABLE}

\* x || d on a number-valued expression
JsOr(x, d) == IF x \in {0, UNDEFINED, NaN, NULL} THEN d ELSE x
\* Number(x)
JsNumber(x) == IF x = UNDEFINED THEN NaN ELSE IF x = NULL THEN 0 ELSE x
\* s || d on a string
StrOr(s, d) == IF s = "" THEN d ELSE s
\* Math.min, Math.max
MathMin(x, y) == IF x <= y THEN x ELSE y
MathMax(x, y) == IF x >= y THEN x ELSE y

(***************************************************************************)
(* State.                                                                  *)
(***************************************************************************)
VARIABLES
    batteries,    \* useState<Battery[]>: the in-memory inventory
    cache,        \* localStorage item 'powerlog_batteries'
    chargeModal,  \* useState {isOpen, batteryId, amount}
    nextId,       \* how many identifiers generateSafeId has handed out, plus one
    clock,        \* the time new Date() reads
    last,         \* the handler that wrote the inventory last
    meter,        \* per metered battery: as loaded, and its consumes since
    server,       \* the table behind /api/batteries and the requests sent to it
    isLoading     \* useState(true): the inventory has not been fetched yet

vars == <<batteries, cache, chargeModal, nextId, clock, last, meter, server, isLoading>>

\* with no match the first element is taken
FindIndex_FirstWhenNone(list, id) ==
    IF \E i \in 1..Len(list) : list[i].id = id
    THEN CHOOSE i \in 1..Len(list) :
            list[i].id = id /\ \A j \in 1..(i - 1) : list[j].id # id
    ELSE IF list = <<>> THEN 0 ELSE 1

\* array.find(x => x.id === id): the index of the first match, 0 when none
FindIndex(list, id) ==
    IF \E i \in 1..Len(list) : list[i].id = id
    THEN CHOOSE i \in 1..Len(list) :
            list[i].id = id /\ \A j \in 1..(i - 1) : list[j].id # id
    ELSE 0

(***************************************************************************)
(* JSON.stringify of the inventory: a field holding undefined is dropped   *)
(* (it reads back as undefined), NaN is written as null.                   *)
(***************************************************************************)
JsonNumber(x) == IF x = NaN THEN NULL ELSE x
JsonBattery(b) == [b EXCEPT !.capacityMah = JsonNumber(@)]
JsonList(list) == [i \in 1..Len(list) |-> JsonBattery(list[i])]

NoCache == [present |-> FALSE, list |-> <<>>]
Stored(list) == [present |-> TRUE, list |-> JsonList(list)]

(***************************************************************************)
(* saveToStorage, the local part: replace by id or append, then mirror the *)
(* list into the cache.                                                    *)
(***************************************************************************)
\* the battery is appended whether or not its id is in the list
UpdatedList_AlwaysAppends(prev, battery) == Append(prev, battery)

UpdatedList(prev, battery) ==
    IF FindIndex(prev, battery.id) # 0
    THEN [i \in 1..Len(prev) |-> IF prev[i].id = battery.id THEN battery ELSE prev[i]]
    ELSE Append(prev, battery)

\* the first battery is removed, whatever id was asked for
RemainingList_DropsFirst(prev, id) ==
    IF prev = <<>> THEN prev ELSE Tail(prev)

\* deleteFromStorage, the local part
RemainingList(prev, id) ==
    LET keep(b) == b.id # id IN SelectSeq(prev, keep)

(***************************************************************************)
(* The server.  POST /api/batteries answers 400 to a body without id or    *)
(* name and otherwise REPLACEs the row of that id (the old row goes, the   *)
(* new one is inserted last), every numeric column as Number(x) || 0; the  *)
(* Docker build of the server binds the fields of the body as they come.   *)
(* The body is the JSON text of the battery.  DELETE removes the row of    *)
(* the id.  A request fails when the server is not reached or answers      *)
(* non-OK; the handler logs the failure and carries on.                    *)
(***************************************************************************)
EmptyDate == 0

\* the name check is left out
ServerAccepts_IdOnly(b) == ~(b.id \in {UNDEFINED, NULL, 0})

ServerAccepts(b) == ~(b.id \in {UNDEFINED, NULL, 0} \/ b.name = "")

ServerRow(b) ==
    [id |-> b.id, name |-> b.name, brand |-> StrOr(b.brand, ""),
     size |-> StrOr(b.size, b.name), category |-> b.category,
     quantity |-> JsOr(JsNumber(b.quantity), 0),
     totalQuantity |-> JsOr(JsNumber(b.totalQuantity), 0),
     minQuantity |-> JsOr(JsNumber(b.minQuantity), 0),
     inUse |-> JsOr(JsNumber(b.inUse), 0),
     usageAccumulator |-> JsOr(JsNumber(b.usageAccumulator), 0),
     capacityMah |-> JsOr(JsNumber(b.capacityMah), 0),
     chargeCycles |-> JsOr(JsNumber(b.chargeCycles), 0),
     lastCharged |-> JsOr(b.lastCharged, EmptyDate),
     chargingHistory |-> b.chargingHistory]

\* a field the body does not hold is bound as NULL
Bound(x) == IF x = UNDEFINED THEN NULL ELSE x

\* the row the Docker build stores
DockerRow(b) ==
    [id |-> b.id, name |-> b.name, brand |-> b.brand, size |-> b.size,
     category |-> b.category,
     quantity |-> Bound(b.quantity),
     totalQuantity |-> Bound(b.totalQuantity),
     minQuantity |-> Bound(b.minQuantity),
     inUse |-> Bound(b.inUse),
     usageAccumulator |-> Bound(b.usageAccumulator),
     capacityMah |-> Bound(b.capacityMah),
     chargeCycles |-> Bound(b.chargeCycles),
     lastCharged |-> Bound(b.lastCharged),
     chargingHistory |-> b.chargingHistory]

\* the row of the body, as the build that runs stores it
StoredRow(b) == IF server.docker THEN DockerRow(b) ELSE ServerRow(b)

\* REPLACE INTO batteries
ReplacedRows(rows, row) == Append(RemainingList(rows, row.id), row)

\* a session that does not follow the server
NoServer ==
    [followed |-> FALSE, overlapped |-> FALSE, docker |-> FALSE,
     rows |-> <<>>, flying |-> <<>>, log |-> <<>>]

\* the requests that write: POST and DELETE
IsWrite(request) == request.method # "GET"

RoomToSend ==
    server.followed =>
        Len(SelectSeq(server.log, IsWrite)) + Len(server.flying) < MaxRequests

\* what a request can meet: the server reached or not (a session that does
\* not follow the server does not tell the two apart, and in a session with
\* overlapped requests the answer comes in a later step)
Reached == IF server.followed /\ ~server.overlapped THEN BOOLEAN ELSE {TRUE}

\* a request: its method, the id it names, its body and the handler that
\* awaits its answer
PostRequest(battery, awaiting) ==
    [method |-> "POST", id |-> battery.id, body |-> JsonBattery(battery),
     awaiting |-> awaiting]
DeleteRequest(id) ==
    [method |-> "DELETE", id |-> id, body |-> [id |-> id],
     awaiting |-> "deleteFromStorage"]

\* the table once the server has handled a request
RowsAfter(rows, request) ==
    IF request.method = "POST"
    THEN ReplacedRows(rows, StoredRow(request.body))
    ELSE RemainingList(rows, request.id)

\* the server answers non-OK
Refused(request) == request.method = "POST" /\ ~ServerAccepts(request.body)

Logged(request, ok) == [method |-> request.method, id |-> request.id, ok |-> ok]

\* a failed request is sent again
Answered_Retries(request, ok) ==
    [server EXCEPT !.rows = IF ok THEN RowsAfter(@, request) ELSE @,
                   !.log = IF ok THEN Append(@, Logged(request, ok))
                           ELSE Append(Append(@, Logged(request, ok)),
                                       Logged(request, ok))]

\* the server once a request has been answered OK or has failed
Answered(request, ok) ==
    [server EXCEPT !.rows = IF ok THEN RowsAfter(@, request) ELSE @,
                   !.log = Append(@, Logged(request, ok))]

\* the server after a handler has sent a request: answered at once, or, in a
\* session with overlapped requests, on its way
ServerAfter(request, ok) ==
    IF ~server.followed THEN server
    ELSE IF server.overlapped
         THEN [server EXCEPT !.flying = Append(@, request)]
         ELSE Answered(request, ok)

\* a failed request takes the change back out of the inventory
Settled_RollsBack(prev, updatedList, ok) == IF ok THEN updatedList ELSE prev

\* the inventory once the request has settled: a failure is logged, no more
Settled(prev, updatedList, ok) == updatedList

\* localStorage.setItem('powerlog_batteries', JSON.stringify(updatedList))
Mirrored(prev, updatedList) == Stored(updatedList)

saveToStorage(battery, awaiting) ==
    /\ RoomToSend
    /\ \E reached \in Reached :
        LET request == PostRequest(battery, awaiting)
            ok == reached /\ ~Refused(request)
        IN /\ batteries' = Settled(batteries, UpdatedList(batteries, battery), ok)
           /\ server' = ServerAfter(request, ok)
    /\ cache' = Mirrored(batteries, batteries')

(***************************************************************************)
(* The entry form.  closeModal leaves the form at its defaults; the edit   *)
(* button loads a battery of the inventory into it; the inputs then set    *)
(* category, name, quantity and totalQuantity.                             *)
(***************************************************************************)
DefaultForm ==
    [id |-> UNDEFINED, name |-> "", brand |-> "", size |-> "",
     category |-> PRIMARY, quantity |-> 1, totalQuantity |-> 1, inUse |-> 0,
     minQuantity |-> 2, usageAccumulator |-> 0, capacityMah |-> 0,
     chargeCycles |-> 0, lastCharged |-> UNDEFINED, chargingHistory |-> <<>>]

\* the number inputs take any number, negative ones too
QuantityInputs == -1..MaxQuantity
TotalInputs == 0..MaxTotal

\* the units in use are kept whatever the category
BuildBattery_KeepsInUse(form, freshId, now) ==
    LET isRechargeable == form.category = RECHARGEABLE IN
    [id |-> JsOr(form.id, freshId),
     name |-> StrOr(form.name, "?"),
     brand |-> StrOr(form.brand, ""),
     size |-> StrOr(form.size, StrOr(form.name, "AA")),
     category |-> form.category,
     quantity |-> JsOr(JsNumber(form.quantity), 0),
     totalQuantity |-> IF isRechargeable
                       THEN JsNumber(JsOr(form.totalQuantity, 1))
                       ELSE JsNumber(JsOr(form.quantity, 1)),
     inUse |-> JsOr(JsNumber(form.inUse), 0),
     minQuantity |-> JsOr(JsNumber(form.minQuantity), 0),
     usageAccumulator |-> JsNumber(JsOr(form.usageAccumulator, 0)),
     capacityMah |-> IF isRechargeable THEN JsNumber(form.capacityMah) ELSE UNDEFINED,
     chargeCycles |-> IF isRechargeable
                      THEN JsNumber(JsOr(form.chargeCycles, 0))
                      ELSE UNDEFINED,
     lastCharged |-> IF isRechargeable THEN JsOr(form.lastCharged, now) ELSE UNDEFINED,
     chargingHistory |-> form.chargingHistory]

\* chargeCycles and lastCharged are built the same way for every category
BuildBattery_KeepsChargeData(form, freshId, now) ==
    LET isRechargeable == form.category = RECHARGEABLE IN
    [id |-> JsOr(form.id, freshId),
     name |-> StrOr(form.name, "?"),
     brand |-> StrOr(form.brand, ""),
     size |-> StrOr(form.size, StrOr(form.name, "AA")),
     category |-> form.category,
     quantity |-> JsOr(JsNumber(form.quantity), 0),
     totalQuantity |-> IF isRechargeable
                       THEN JsNumber(JsOr(form.totalQuantity, 1))
                       ELSE JsNumber(JsOr(form.quantity, 1)),
     inUse |-> IF isRechargeable THEN JsOr(JsNumber(form.inUse), 0) ELSE 0,
     minQuantity |-> JsOr(JsNumber(form.minQuantity), 0),
     usageAccumulator |-> JsNumber(JsOr(form.usageAccumulator, 0)),
     capacityMah |-> IF isRechargeable THEN JsNumber(form.capacityMah) ELSE UNDEFINED,
     chargeCycles |-> JsNumber(JsOr(form.chargeCycles, 0)),
     lastCharged |-> JsOr(form.lastCharged, now),
     chargingHistory |-> form.chargingHistory]

\* the battery saveBattery builds from the form, a fresh id and the time
BuildBattery(form, freshId, now) ==
    LET isRechargeable == form.category = RECHARGEABLE IN
    [id |-> JsOr(form.id, freshId),
     name |-> StrOr(form.name, "?"),
     brand |-> StrOr(form.brand, ""),
     size |-> StrOr(form.size, StrOr(form.name, "AA")),
     category |-> form.category,
     quantity |-> JsOr(JsNumber(form.quantity), 0),
     totalQuantity |-> IF isRechargeable
                       THEN JsNumber(JsOr(form.totalQuantity, 1))
                       ELSE JsNumber(JsOr(form.quantity, 1)),
     inUse |-> IF isRechargeable THEN JsOr(JsNumber(form.inUse), 0) ELSE 0,
     minQuantity |-> JsOr(JsNumber(form.minQuantity), 0),
     usageAccumulator |-> JsNumber(JsOr(form.usageAccumulator, 0)),
     capacityMah |-> IF isRechargeable THEN JsNumber(form.capacityMah) ELSE UNDEFINED,
     chargeCycles |-> IF isRechargeable
                      THEN JsNumber(JsOr(form.chargeCycles, 0))
                      ELSE UNDEFINED,
     lastCharged |-> IF isRechargeable THEN JsOr(form.lastCharged, now) ELSE UNDEFINED,
     chargingHistory |-> form.chargingHistory]

(***************************************************************************)
(* useBattery: the next state of a battery with quantity > 0.              *)
(***************************************************************************)
\* a consume takes the unit off quantity and does not book it as in use
UsedBattery_QuantityOnly(b) ==
    IF b.category = RECHARGEABLE
    THEN LET nextAccumulator == b.usageAccumulator + 1
             nextCycles == JsOr(b.chargeCycles, 0)
             rollover == nextAccumulator >= JsOr(b.totalQuantity, 1)
         IN [b EXCEPT !.quantity = b.quantity - 1,
                      !.usageAccumulator = IF rollover THEN 0 ELSE nextAccumulator,
                      !.chargeCycles = IF rollover THEN nextCycles + 1 ELSE nextCycles]
    ELSE [b EXCEPT !.quantity = b.quantity - 1,
                   !.totalQuantity =
                       MathMax(0, JsOr(b.totalQuantity, b.quantity) - 1)]

\* the accumulator wraps modulo the batch instead of being reset
UsedBattery_Modulo(b) ==
    IF b.category = RECHARGEABLE
    THEN LET nextAccumulator == b.usageAccumulator + 1
             nextCycles == JsOr(b.chargeCycles, 0)
             rollover == nextAccumulator >= JsOr(b.totalQuantity, 1)
         IN [b EXCEPT !.quantity = b.quantity - 1,
                      !.inUse = b.inUse + 1,
                      !.usageAccumulator =
                          nextAccumulator % MathMax(JsOr(b.totalQuantity, 1), 1),
                      !.chargeCycles = IF rollover THEN nextCycles + 1 ELSE nextCycles]
    ELSE [b EXCEPT !.quantity = b.quantity - 1,
                   !.totalQuantity =
                       MathMax(0, JsOr(b.totalQuantity, b.quantity) - 1)]

\* a cycle completes one consume late
UsedBattery_LateRollover(b) ==
    IF b.category = RECHARGEABLE
    THEN LET nextAccumulator == b.usageAccumulator + 1
             nextCycles == JsOr(b.chargeCycles, 0)
             rollover == nextAccumulator > JsOr(b.totalQuantity, 1)
         IN [b EXCEPT !.quantity = b.quantity - 1,
                      !.inUse = b.inUse + 1,
                      !.usageAccumulator = IF rollover THEN 0 ELSE nextAccumulator,
                      !.chargeCycles = IF rollover THEN nextCycles + 1 ELSE nextCycles]
    ELSE [b EXCEPT !.quantity = b.quantity - 1,
                   !.totalQuantity =
                       MathMax(0, JsOr(b.totalQuantity, b.quantity) - 1)]

UsedBattery(b) ==
    IF b.category = RECHARGEABLE
    THEN LET nextAccumulator == b.usageAccumulator + 1
             nextCycles == JsOr(b.chargeCycles, 0)
             rollover == nextAccumulator >= JsOr(b.totalQuantity, 1)
         IN [b EXCEPT !.quantity = b.quantity - 1,
                      !.inUse = b.inUse + 1,
                      !.usageAccumulator = IF rollover THEN 0 ELSE nextAccumulator,
                      !.chargeCycles = IF rollover THEN nextCycles + 1 ELSE nextCycles]
    ELSE [b EXCEPT !.quantity = b.quantity - 1,
                   !.totalQuantity =
                       MathMax(0, JsOr(b.totalQuantity, b.quantity) - 1)]

\* the early return lets a battery with quantity 0 through
UseRefused_ZeroPasses(list, id) ==
    FindIndex(list, id) = 0 \/ list[FindIndex(list, id)].quantity < 0

\* useBattery's early return
UseRefused(list, id) ==
    FindIndex(list, id) = 0 \/ list[FindIndex(list, id)].quantity <= 0

(***************************************************************************)
(* executeCharge: the next state of the battery the charge modal names.    *)
(***************************************************************************)
\* the requested amount is moved without the clamp to inUse
MoveAmount_Unclamped(b, amount) == amount

MoveAmount(b, amount) == MathMin(b.inUse, amount)

\* the new event is put at the tail of the ledger
NewHistory_AtTail(event, history) == history \o <<event>>

NewHistory(event, history) == <<event>> \o history

\* a recharge is counted as a charge cycle
ChargedBattery_CountsCycle(b, amount, eventId, now) ==
    LET moveAmount == MoveAmount(b, amount)
        newHistoryEvent == [id |-> eventId, date |-> now, count |-> moveAmount]
    IN [b EXCEPT !.quantity = b.quantity + moveAmount,
                 !.inUse = b.inUse - moveAmount,
                 !.lastCharged = now,
                 !.chargeCycles = JsOr(b.chargeCycles, 0) + 1,
                 !.chargingHistory = NewHistory(newHistoryEvent, b.chargingHistory)]

ChargedBattery(b, amount, eventId, now) ==
    LET moveAmount == MoveAmount(b, amount)
        newHistoryEvent == [id |-> eventId, date |-> now, count |-> moveAmount]
    IN [b EXCEPT !.quantity = b.quantity + moveAmount,
                 !.inUse = b.inUse - moveAmount,
                 !.lastCharged = now,
                 !.chargingHistory = NewHistory(newHistoryEvent, b.chargingHistory)]

(***************************************************************************)
(* deleteHistoryEntry: the ledger without the events of the given id.      *)
(***************************************************************************)
\* the newest event is dropped, whatever id was asked for
UpdatedHistory_DropsHead(history, eventId) ==
    IF history = <<>> THEN history ELSE Tail(history)

UpdatedHistory(history, eventId) ==
    LET keep(e) == e.id # eventId IN SelectSeq(history, keep)

\* removing an event takes its units back out of quantity
TrimmedBattery_RevertsCharge(b, eventId) ==
    LET gone(e) == e.id = eventId
        removed == SelectSeq(b.chargingHistory, gone)
    IN [b EXCEPT !.chargingHistory = UpdatedHistory(b.chargingHistory, eventId),
                 !.quantity = IF removed = <<>> THEN @ ELSE @ - removed[1].count,
                 !.inUse = IF removed = <<>> THEN @ ELSE @ + removed[1].count]

TrimmedBattery(b, eventId) ==
    [b EXCEPT !.chargingHistory = UpdatedHistory(b.chargingHistory, eventId)]

(***************************************************************************)
(* Identifiers.  generateSafeId returns a value no battery and no event    *)
(* carries yet: the identifiers of a loaded inventory come first, the      *)
(* generated ones follow in the order of generation.                       *)
(***************************************************************************)
LoadedBatteryIds == {1, 2}
LoadedEventIds == {3, 4}
LoadedIds == LoadedBatteryIds \cup LoadedEventIds
\* the generator hands out the same value every time
generateSafeId_Repeats == Cardinality(LoadedIds) + 1

generateSafeId == Cardinality(LoadedIds) + nextId
NoId == 0
\* the ids a handler is called with: those of the batteries and events at
\* hand, and one that nothing carries
BatteryIds == {batteries[i].id : i \in 1..Len(batteries)} \cup {NoId}
EventIds ==
    UNION {{batteries[i].chargingHistory[j].id :
                j \in 1..Len(batteries[i].chargingHistory)} :
           i \in 1..Len(batteries)} \cup {NoId}
ClosedModal == [isOpen |-> FALSE, batteryId |-> NoId, amount |-> 1]

\* new Date(): the clock may have advanced since it was last read
Times == {t \in {clock, clock + 1} : t <= MaxClock}

\* the bounds of the model: counters that the handlers would grow for ever
Capped(b) ==
    /\ b.inUse <= MaxCount
    /\ b.chargeCycles <= MaxCount
IdLeft == nextId <= MaxIds
Room == Len(batteries) < IF server.followed THEN MaxSynced ELSE MaxBatteries

\* a consume of a metered battery is counted
Metered(id) ==
    IF id \in DOMAIN meter THEN [meter EXCEPT ![id].uses = @ + 1] ELSE meter

(***************************************************************************)
(* Initial state: the component as mounted over an empty store, the form   *)
(* and the charge modal at their useState defaults.                        *)
(***************************************************************************)
Init ==
    /\ batteries = <<>>
    /\ cache = NoCache
    /\ chargeModal = ClosedModal
    /\ nextId = 1
    /\ clock = 1
    /\ last = "mount"
    /\ meter = <<>>
    /\ server = NoServer
    /\ isLoading = FALSE

(***************************************************************************)
(* saveBattery (with saveToStorage and closeModal).  The form is the       *)
(* default form or a battery of the inventory, with the fields the inputs  *)
(* set; Save on a form without a name returns at once.                     *)
(***************************************************************************)
FormBases == {DefaultForm} \cup {batteries[i] : i \in 1..Len(batteries)}

\* a form without a name is saved all the same
NameMissing_Never(formBattery) == FALSE

\* !formBattery.name
NameMissing(formBattery) == formBattery.name = ""

SubmitForm(formBattery, now) ==
    IF NameMissing(formBattery)
    THEN UNCHANGED vars
    ELSE LET isNew == formBattery.id = UNDEFINED
             readsClock == /\ formBattery.category = RECHARGEABLE
                           /\ formBattery.lastCharged = UNDEFINED
             battery == BuildBattery(formBattery, generateSafeId, now)
         IN /\ isNew => IdLeft /\ Room
            /\ readsClock \/ now = clock
            /\ saveToStorage(battery, "saveBattery")
            /\ nextId' = IF isNew THEN nextId + 1 ELSE nextId
            /\ clock' = now
            /\ last' = "saveBattery"
            /\ UNCHANGED <<chargeModal, meter, isLoading>>

\* what the form can hold when Save is pressed: a base with the name, the
\* category buttons and the quantity inputs applied (the totalQuantity input
\* is shown for RECHARGEABLE only, and BuildBattery reads it for RECHARGEABLE
\* only)
FormOf(base, name, category, quantity, totalQuantity) ==
    [base EXCEPT !.name = name, !.category = category, !.quantity = quantity,
                 !.totalQuantity = totalQuantity]

saveBattery ==
    \/ SubmitForm(DefaultForm, clock)
    \/ \E base \in FormBases, category \in Categories, now \in Times :
       \E quantity \in {base.quantity} \cup QuantityInputs :
       \E totalQuantity \in IF category = RECHARGEABLE
                            THEN {base.totalQuantity} \cup TotalInputs
                            ELSE {base.totalQuantity} :
           SubmitForm(FormOf(base, "AA", category, quantity, totalQuantity), now)

(***************************************************************************)
(* The handlers of a render read the `batteries` of that render; the       *)
(* updater inside saveToStorage reads the state itself.  A handler sets    *)
(* the state before its first await, inside the click event, and the       *)
(* render that follows is complete before the next event is dispatched.    *)
(***************************************************************************)
\* the handlers keep the inventory of the render they were first created in
Snapshot_AsLoaded ==
    [i \in 1..Len(batteries) |->
        IF batteries[i].id \in DOMAIN meter
        THEN meter[batteries[i].id].loaded
        ELSE batteries[i]]

Snapshot == batteries

(***************************************************************************)
(* useBattery(id)                                                          *)
(***************************************************************************)
useBattery(id) ==
    IF UseRefused(Snapshot, id)
    THEN UNCHANGED vars
    ELSE LET updated == UsedBattery(Snapshot[FindIndex(Snapshot, id)])
         IN /\ Capped(updated)
            /\ saveToStorage(updated, "useBattery")
            /\ last' = "useBattery"
            /\ meter' = Metered(id)
            /\ UNCHANGED <<chargeModal, nextId, clock, isLoading>>

(***************************************************************************)
(* The charge modal: the charge button of a rechargeable battery with      *)
(* units in use opens it, - and + step the amount, cancel closes it.       *)
(***************************************************************************)
openChargeModal(id) ==
    /\ FindIndex(batteries, id) # 0
    /\ LET battery == batteries[FindIndex(batteries, id)]
       IN /\ battery.category = RECHARGEABLE
          /\ JsOr(battery.inUse, 0) # 0
          /\ chargeModal' = [isOpen |-> TRUE, batteryId |-> id,
                             amount |-> JsOr(battery.inUse, 0)]
    /\ UNCHANGED <<batteries, cache, nextId, clock, last, meter, server, isLoading>>

\* batteries.find(b => b.id === chargeModal.batteryId)?.inUse || 1
ModalMax ==
    IF FindIndex(batteries, chargeModal.batteryId) = 0 THEN 1
    ELSE JsOr(batteries[FindIndex(batteries, chargeModal.batteryId)].inUse, 1)

amountMinus ==
    /\ chargeModal.isOpen
    /\ chargeModal' = [chargeModal EXCEPT !.amount = MathMax(1, @ - 1)]
    /\ UNCHANGED <<batteries, cache, nextId, clock, last, meter, server, isLoading>>

amountPlus ==
    /\ chargeModal.isOpen
    /\ chargeModal' = [chargeModal EXCEPT !.amount = MathMin(ModalMax, @ + 1)]
    /\ UNCHANGED <<batteries, cache, nextId, clock, last, meter, server, isLoading>>

cancelCharge ==
    /\ chargeModal.isOpen
    /\ chargeModal' = ClosedModal
    /\ UNCHANGED <<batteries, cache, nextId, clock, last, meter, server, isLoading>>

(***************************************************************************)
(* executeCharge (the modal's confirm button)                              *)
(***************************************************************************)
executeCharge ==
    /\ chargeModal.isOpen
    /\ IF FindIndex(Snapshot, chargeModal.batteryId) = 0
       THEN UNCHANGED vars
       ELSE \E now \in Times :
            LET b == Snapshot[FindIndex(Snapshot, chargeModal.batteryId)]
                updated == ChargedBattery(b, chargeModal.amount, generateSafeId, now)
            IN /\ IdLeft
               /\ saveToStorage(updated, "executeCharge")
               /\ chargeModal' = IF server.overlapped THEN chargeModal ELSE ClosedModal
               /\ nextId' = nextId + 1
               /\ clock' = now
               /\ last' = "executeCharge"
               /\ UNCHANGED <<meter, isLoading>>

(***************************************************************************)
(* deleteHistoryEntry(batteryId, eventId)                                  *)
(***************************************************************************)
deleteHistoryEntry(batteryId, eventId) ==
    IF FindIndex(Snapshot, batteryId) = 0
    THEN UNCHANGED vars
    ELSE LET updated == TrimmedBattery(Snapshot[FindIndex(Snapshot, batteryId)], eventId)
         IN /\ saveToStorage(updated, "deleteHistoryEntry")
            /\ last' = "deleteHistoryEntry"
            /\ UNCHANGED <<chargeModal, nextId, clock, meter, isLoading>>

(***************************************************************************)
(* deleteFromStorage(id) (the delete button)                               *)
(***************************************************************************)
deleteFromStorage(id) ==
    /\ RoomToSend
    /\ \E reached \in Reached :
        /\ batteries' = Settled(batteries, RemainingList(batteries, id), reached)
        /\ server' = ServerAfter(DeleteRequest(id), reached)
    /\ cache' = Mirrored(batteries, batteries')
    /\ last' = "deleteFromStorage"
    /\ UNCHANGED <<chargeModal, nextId, clock, meter, isLoading>>

Next ==
    \/ saveBattery
    \/ \E id \in BatteryIds : useBattery(id)
    \/ \E id \in BatteryIds : openChargeModal(id)
    \/ amountMinus
    \/ amountPlus
    \/ cancelCharge
    \/ executeCharge
    \/ \E batteryId \in BatteryIds, eventId \in EventIds : deleteHistoryEntry(batteryId, eventId)
    \/ \E id \in BatteryIds : deleteFromStorage(id)

Spec == Init /\ [][Next]_vars

(***************************************************************************)
(* The component over an inventory that fetchBatteries loaded: two rows    *)
(* as GET /api/batteries returns them (POST stores Number(x) || 0 in every *)
(* numeric column and lastCharged || ''), the first drawn from the rows a  *)
(* table can hold, the second a primary battery with one unit.              *)
(* Here the loaded batteries are consumed, recharged and their ledgers     *)
(* trimmed; every loaded battery is metered.                               *)
(***************************************************************************)
LoadedCounts == 0..MaxLoaded

LoadedRow(id, category, quantity, totalQuantity, inUse, usageAccumulator, history) ==
    [id |-> id, name |-> "AA", brand |-> "", size |-> "AA",
     category |-> category, quantity |-> quantity,
     totalQuantity |-> totalQuantity, inUse |-> inUse, minQuantity |-> 2,
     usageAccumulator |-> usageAccumulator, capacityMah |-> 0,
     chargeCycles |-> 0, lastCharged |-> EmptyDate, chargingHistory |-> history]

\* ledgers as the client writes them: newest first
LoadedHistories == { <<>> }

LoadedRows ==
    { LoadedRow(1, RECHARGEABLE, q, t, u, a, h) :
        q \in LoadedCounts, t \in LoadedCounts, u \in LoadedCounts,
        a \in LoadedCounts, h \in LoadedHistories }
    \cup
    { LoadedRow(1, c, q, t, 0, 0, <<>>) :
        c \in {PRIMARY, BUTTON_CELL}, q \in LoadedCounts, t \in LoadedCounts }

Bystander == LoadedRow(2, PRIMARY, 1, 1, 0, 0, <<>>)

InitLoaded ==
    /\ \E row \in LoadedRows : batteries = <<row, Bystander>>
    /\ cache = Stored(batteries)
    /\ chargeModal = ClosedModal
    /\ nextId = 1
    /\ clock = 1
    /\ last = "fetchBatteries"
    /\ meter = [id \in LoadedBatteryIds |->
                   [uses |-> 0, loaded |-> batteries[FindIndex(batteries, id)]]]
    /\ server = NoServer
    /\ isLoading = FALSE

NextLoaded ==
    \/ \E id \in BatteryIds : useBattery(id)
    \/ \E id \in BatteryIds : openChargeModal(id)
    \/ amountMinus
    \/ amountPlus
    \/ cancelCharge
    \/ executeCharge
    \/ \E batteryId \in BatteryIds, eventId \in EventIds : deleteHistoryEntry(batteryId, eventId)

SpecLoaded == InitLoaded /\ [][NextLoaded]_vars

(***************************************************************************)
(* The component and the server behind it: fetchBatteries has loaded the   *)
(* one row of the table, a rechargeable battery with a unit in use and a   *)
(* recharge in its ledger; from there every handler runs, each of its      *)
(* requests reaching the server or failing, for MaxRequests requests.      *)
(***************************************************************************)
SyncRow ==
    [LoadedRow(1, RECHARGEABLE, 1, 2, 1, 1, <<[id |-> 3, date |-> 1, count |-> 1]>>)
        EXCEPT !.lastCharged = 1]

InitSync ==
    /\ batteries = <<SyncRow>>
    /\ cache = Stored(batteries)
    /\ chargeModal = ClosedModal
    /\ nextId = 1
    /\ clock = 1
    /\ last = "fetchBatteries"
    /\ meter = <<>>
    /\ server = [NoServer EXCEPT !.followed = TRUE, !.rows = <<SyncRow>>]
    /\ isLoading = FALSE

SpecSync == InitSync /\ [][Next]_vars

(***************************************************************************)
(* The mount of the component: fetchBatteries asks for the rows once and   *)
(* the component shows nothing but "Powering Up..." until isLoading is     *)
(* false.  The table holds what earlier sessions stored; the cache is      *)
(* absent or holds the inventory of an earlier session whose last request  *)
(* failed.                                                                 *)
(***************************************************************************)
\* isLoading is set to false after a successful fetch only
LoadingAfter_NoFinally(reached) == ~reached

\* finally { setIsLoading(false) }
LoadingAfter(reached) == FALSE

\* the catch block: the cached list, when there is one
Fallback_Empties(localData, prev) == <<>>

Fallback(localData, prev) == IF localData.present THEN localData.list ELSE prev

fetchBatteries ==
    /\ isLoading
    /\ last = "mount"
    /\ \E reached \in BOOLEAN :
        /\ batteries' = IF reached THEN server.rows ELSE Fallback(cache, batteries)
        /\ cache' = IF reached THEN Stored(server.rows) ELSE cache
        /\ server' = [server EXCEPT
                        !.log = Append(@, [method |-> "GET", id |-> NoId, ok |-> reached])]
        /\ isLoading' = LoadingAfter(reached)
    /\ last' = "fetchBatteries"
    /\ UNCHANGED <<chargeModal, nextId, clock, meter>>

\* a consume whose request failed, in the session before
CachedRow == [SyncRow EXCEPT !.quantity = 0, !.inUse = 2]

InitMount ==
    /\ batteries = <<>>
    /\ cache \in {NoCache, Stored(<<CachedRow>>)}
    /\ chargeModal = ClosedModal
    /\ nextId = 1
    /\ clock = 1
    /\ last = "mount"
    /\ meter = <<>>
    /\ \E rows \in {<<>>, <<SyncRow>>, <<SyncRow, Bystander>>} :
        server = [NoServer EXCEPT !.followed = TRUE, !.rows = rows]
    /\ isLoading = TRUE

\* if (isLoading) return the "Powering Up..." screen: no handler can be called
NextMount ==
    \/ fetchBatteries
    \/ ~isLoading /\ Next

SpecMount == InitMount /\ [][NextMount]_vars

\* the fetch settles: the promise of the request is resolved or rejected
SpecMountFair == SpecMount /\ WF_vars(fetchBatteries)

(***************************************************************************)
(* A session with overlapped requests: a handler returns to the event loop *)
(* at its await, the user goes on, and the server handles the requests on  *)
(* their way in any order; the handler that awaits an answer runs to its   *)
(* end when the answer comes (executeCharge then closes the charge modal). *)
(***************************************************************************)
Without(seq, i) == SubSeq(seq, 1, i - 1) \o SubSeq(seq, i + 1, Len(seq))

respond(i) ==
    /\ i \in 1..Len(server.flying)
    /\ \E reached \in BOOLEAN :
        LET request == server.flying[i]
            ok == reached /\ ~Refused(request)
        IN /\ server' = [Answered(request, ok) EXCEPT
                            !.flying = Without(server.flying, i)]
           /\ chargeModal' = IF request.awaiting = "executeCharge"
                             THEN ClosedModal ELSE chargeModal
    /\ UNCHANGED <<batteries, cache, nextId, clock, last, meter, isLoading>>

InitAsync ==
    /\ batteries = <<SyncRow>>
    /\ cache = Stored(batteries)
    /\ chargeModal = ClosedModal
    /\ nextId = 1
    /\ clock = 1
    /\ last = "fetchBatteries"
    /\ meter = <<>>
    /\ server = [NoServer EXCEPT !.followed = TRUE, !.overlapped = TRUE,
                                 !.rows = <<SyncRow>>]
    /\ isLoading = FALSE

NextAsync ==
    \/ Next
    \/ \E i \in 1..Len(server.flying) : respond(i)

SpecAsync == InitAsync /\ [][NextAsync]_vars

(***************************************************************************)
(* The endpoints on their own: any client may send a body to POST          *)
(* /api/batteries, with or without id and name, and may DELETE any id; the *)
(* server is either build, its table as earlier requests left it.  The     *)
(* database does not fail, so that the one answer that is not OK is the    *)
(* 400.                                                                    *)
(***************************************************************************)
Payloads ==
    { [Bystander EXCEPT !.id = id, !.name = name, !.size = size,
                        !.quantity = quantity, !.capacityMah = capacityMah] :
        id \in {UNDEFINED} \cup LoadedBatteryIds, name \in {"", "AA", "AAA"},
        size \in {"", "AA"}, quantity \in {UNDEFINED, 0, MaxQuantity},
        capacityMah \in {NULL, 0} }

post(b) ==
    /\ RoomToSend
    /\ LET request == [method |-> "POST", id |-> b.id, body |-> b, awaiting |-> "client"]
       IN server' = Answered(request, ~Refused(request))
    /\ UNCHANGED <<batteries, cache, chargeModal, nextId, clock, last, meter, isLoading>>

delete(id) ==
    /\ RoomToSend
    /\ server' = Answered(DeleteRequest(id), TRUE)
    /\ UNCHANGED <<batteries, cache, chargeModal, nextId, clock, last, meter, isLoading>>

InitEndpoint ==
    /\ batteries = <<>>
    /\ cache = NoCache
    /\ chargeModal = ClosedModal
    /\ nextId = 1
    /\ clock = 1
    /\ last = "mount"
    /\ meter = <<>>
    /\ \E docker \in BOOLEAN, rows \in {<<>>, <<SyncRow>>, <<SyncRow, Bystander>>} :
        server = [NoServer EXCEPT !.followed = TRUE, !.docker = docker, !.rows = rows]
    /\ isLoading = TRUE

NextEndpoint ==
    \/ \E b \in Payloads : post(b)
    \/ \E id \in LoadedBatteryIds : delete(id)

SpecEndpoint == InitEndpoint /\ [][NextEndpoint]_vars

(***************************************************************************)
(* Properties.                                                             *)
(***************************************************************************)
Known(id) == FindIndex(batteries, id) # 0
Battery(id) == batteries[FindIndex(batteries, id)]
BatteryAfter(id) == batteries'[FindIndex(batteries', id)]
Consumed(id) == useBattery(id) /\ Known(id) /\ Battery(id).quantity > 0
Recharged ==
    executeCharge /\ Known(chargeModal.batteryId) /\ chargeModal.amount >= 1
Trimmed(batteryId, eventId) ==
    deleteHistoryEntry(batteryId, eventId) /\ Known(batteryId)

\* C1: a consume of a battery of any category with quantity > 0 takes one off
\* its quantity; a consume of a battery with quantity <= 0 leaves the
\* inventory (that battery included) and the cache as they were.
C1_ConsumeQuantity ==
    [][\A id \in BatteryIds :
        /\ Consumed(id) => BatteryAfter(id).quantity = Battery(id).quantity - 1
        /\ useBattery(id) /\ Known(id) /\ Battery(id).quantity <= 0
             => batteries' = batteries /\ cache' = cache]_vars

C1_Witness ==
    /\ last = "useBattery"
    /\ meter[1].uses = 2
    /\ batteries[1].quantity = 0

\* C2: a consume of a RECHARGEABLE battery with quantity > 0 adds one to
\* inUse and, with batch = max(totalQuantity, 1), either completes a cycle
\* (usageAccumulator + 1 >= batch: accumulator 0, chargeCycles + 1) or adds
\* one to the accumulator and keeps chargeCycles; with totalQuantity = 0 every
\* such consume completes a cycle.
C2_RechargeableConsume ==
    [][\A id \in BatteryIds :
        Consumed(id) /\ Battery(id).category = RECHARGEABLE =>
            LET b == Battery(id)
                after == BatteryAfter(id)
                batch == MathMax(b.totalQuantity, 1)
            IN /\ after.inUse = b.inUse + 1
               /\ IF b.usageAccumulator + 1 >= batch
                  THEN /\ after.usageAccumulator = 0
                       /\ after.chargeCycles = b.chargeCycles + 1
                  ELSE /\ after.usageAccumulator = b.usageAccumulator + 1
                       /\ after.chargeCycles = b.chargeCycles
               /\ b.totalQuantity = 0 => after.chargeCycles = b.chargeCycles + 1]_vars

C2_Witness ==
    /\ last = "useBattery"
    /\ batteries[1].category = RECHARGEABLE
    /\ batteries[1].totalQuantity = 0
    /\ meter[1].uses = 2
    /\ batteries[1].chargeCycles = 2

\* C3: a recharge of a known battery with amount >= 1 moves
\* min(inUse, amount) units from inUse to quantity, sets lastCharged to the
\* time of the action and puts one new event, with that count, at the head of
\* the ledger, the earlier events following it unchanged.
C3_Recharge ==
    [][Recharged =>
        LET b == Battery(chargeModal.batteryId)
            after == BatteryAfter(chargeModal.batteryId)
            moveAmount == IF b.inUse <= chargeModal.amount THEN b.inUse
                          ELSE chargeModal.amount
        IN /\ after.quantity = b.quantity + moveAmount
           /\ after.inUse = b.inUse - moveAmount
           /\ after.lastCharged = clock'
           /\ Len(after.chargingHistory) = Len(b.chargingHistory) + 1
           /\ Head(after.chargingHistory).count = moveAmount
           /\ Tail(after.chargingHistory) = b.chargingHistory]_vars

C3_Witness ==
    /\ last = "executeCharge"
    /\ \E i \in 1..Len(batteries) :
        /\ Len(batteries[i].chargingHistory) = 2
        /\ batteries[i].chargingHistory[1].count = 2
        /\ batteries[i].lastCharged = 2

Consumable(b) == b.category \in {PRIMARY, BUTTON_CELL}

\* C4: a consume of a PRIMARY or BUTTON_CELL battery with
\* quantity > 0 leaves totalQuantity' = max(0, totalQuantity - 1) for every
\* totalQuantity >= 0, totalQuantity = 0 included.
C4_ConsumableTotal ==
    [][\A id \in BatteryIds :
        Consumed(id) /\ Consumable(Battery(id)) /\ Battery(id).totalQuantity >= 0 =>
            BatteryAfter(id).totalQuantity =
                MathMax(0, Battery(id).totalQuantity - 1)]_vars

RECURSIVE SumCounts(_)
SumCounts(history) ==
    IF history = <<>> THEN 0 ELSE Head(history).count + SumCounts(Tail(history))

C6_CyclesPerRotation ==
    \A id \in DOMAIN meter :
        LET m == meter[id] IN
        /\ Known(id)
        /\ m.loaded.category = RECHARGEABLE
        /\ m.loaded.totalQuantity >= 1
        /\ m.loaded.usageAccumulator = 0
        => /\ Battery(id).totalQuantity = m.loaded.totalQuantity
           /\ Battery(id).chargeCycles =
                m.loaded.chargeCycles + (m.uses \div m.loaded.totalQuantity)
           /\ Battery(id).usageAccumulator = m.uses % m.loaded.totalQuantity

C6_Witness ==
    /\ meter[1].loaded.category = RECHARGEABLE
    /\ meter[1].loaded.totalQuantity = 2
    /\ meter[1].loaded.usageAccumulator = 0
    /\ meter[1].uses = 3
    /\ Len(batteries[1].chargingHistory) = 1
    /\ nextId = 3

\* C7: a recharge changes neither usageAccumulator nor chargeCycles nor
\* totalQuantity of the recharged battery, and changes no other battery.
C7_RechargeFrame ==
    [][Recharged =>
        /\ Len(batteries') = Len(batteries)
        /\ \A i \in 1..Len(batteries) :
            IF batteries[i].id = chargeModal.batteryId
            THEN /\ batteries'[i].usageAccumulator = batteries[i].usageAccumulator
                 /\ batteries'[i].chargeCycles = batteries[i].chargeCycles
                 /\ batteries'[i].totalQuantity = batteries[i].totalQuantity
            ELSE batteries'[i] = batteries[i]]_vars

C7_Witness ==
    /\ last = "executeCharge"
    /\ Len(batteries) = 2
    /\ batteries[1].chargingHistory # <<>>
    /\ batteries[1].usageAccumulator = 1
    /\ batteries[2].quantity = 1

\* C8: a history-entry removal changes none of quantity, inUse,
\* totalQuantity, usageAccumulator, chargeCycles and lastCharged.
C8_RemovalFrame ==
    [][\A batteryId \in BatteryIds, eventId \in EventIds :
        Trimmed(batteryId, eventId) =>
            LET b == Battery(batteryId)
                after == BatteryAfter(batteryId)
            IN /\ after.quantity = b.quantity
               /\ after.inUse = b.inUse
               /\ after.totalQuantity = b.totalQuantity
               /\ after.usageAccumulator = b.usageAccumulator
               /\ after.chargeCycles = b.chargeCycles
               /\ after.lastCharged = b.lastCharged]_vars

C8_Witness ==
    /\ last = "deleteHistoryEntry"
    /\ nextId = 2
    /\ batteries[1].chargingHistory = <<>>
    /\ batteries[1].quantity = 2
    /\ batteries[1].lastCharged = 2

\* C9: every ledger is ordered newest first: of two events of a ledger, the
\* one created later (the later identifier) stands before the other.
C9_NewestFirst ==
    \A i \in 1..Len(batteries) :
        \A j, k \in 1..Len(batteries[i].chargingHistory) :
            j < k => batteries[i].chargingHistory[j].id
                        > batteries[i].chargingHistory[k].id

C9_Witness ==
    \E i \in 1..Len(batteries) :
        /\ Len(batteries[i].chargingHistory) = 2
        /\ batteries[i].category = PRIMARY
        /\ last = "saveBattery"

\* C10: a history-entry removal with event id e takes out of the ledger the
\* one event with id e and keeps every other event in its place relative to
\* the others; with no event of id e the ledger stays as it was.
C10_RemovalById ==
    [][\A batteryId \in BatteryIds, eventId \in EventIds :
        Trimmed(batteryId, eventId) =>
            LET history == Battery(batteryId).chargingHistory
                after == BatteryAfter(batteryId).chargingHistory
                at == {j \in 1..Len(history) : history[j].id = eventId}
            IN IF at = {}
               THEN after = history
               ELSE /\ Cardinality(at) = 1
                    /\ \E j \in at :
                        after = SubSeq(history, 1, j - 1)
                                  \o SubSeq(history, j + 1, Len(history))]_vars

\* the middle one of three events removed
C10_Witness ==
    /\ last = "deleteHistoryEntry"
    /\ Len(batteries[1].chargingHistory) = 2
    /\ batteries[1].chargingHistory[1].id = generateSafeId - 1
    /\ batteries[1].chargingHistory[2].id = generateSafeId - 3

\* C11: a consume and a recharge of a RECHARGEABLE battery each leave
\* quantity + inUse and totalQuantity as they were; and a battery loaded with
\* quantity + inUse <= totalQuantity keeps that through every sequence of
\* consumes and recharges.
C11_BalanceKept ==
    /\ [][\A id \in BatteryIds :
            /\ Known(id)
            /\ Battery(id).category = RECHARGEABLE
            /\ \/ Consumed(id)
               \/ executeCharge /\ chargeModal.batteryId = id
            => /\ BatteryAfter(id).quantity + BatteryAfter(id).inUse
                    = Battery(id).quantity + Battery(id).inUse
               /\ BatteryAfter(id).totalQuantity = Battery(id).totalQuantity]_vars
    /\ [](\A id \in DOMAIN meter :
            /\ meter[id].loaded.category = RECHARGEABLE
            /\ meter[id].loaded.quantity + meter[id].loaded.inUse
                    <= meter[id].loaded.totalQuantity
            => /\ Known(id)
               /\ Battery(id).quantity + Battery(id).inUse
                    <= Battery(id).totalQuantity)

\* consumed twice with a recharge in between, the balance at its limit
C11_Witness ==
    /\ last = "executeCharge"
    /\ meter[1].loaded.category = RECHARGEABLE
    /\ meter[1].loaded.quantity = 1
    /\ meter[1].loaded.inUse = 1
    /\ meter[1].loaded.totalQuantity = 2
    /\ meter[1].uses = 2
    /\ batteries[1].quantity = 2

\* C12: in every state reached by upserts, consumes, recharges, history-entry
\* removals and deletes, every battery of the inventory has quantity >= 0.
C12_QuantityNotNegative ==
    \A i \in 1..Len(batteries) : batteries[i].quantity >= 0

\* C13: in every state reached from batteries created by upsert, through
\* upserts (category changes included), consumes, recharges and history-entry
\* removals, every PRIMARY or BUTTON_CELL battery has inUse = 0.
C13_ConsumableNotInUse ==
    \A i \in 1..Len(batteries) :
        Consumable(batteries[i]) => batteries[i].inUse = 0

\* a battery edited from RECHARGEABLE to PRIMARY and then recharged through
\* the charge modal that was open before the edit
C13_Witness ==
    /\ last = "executeCharge"
    /\ \E i \in 1..Len(batteries) :
        /\ batteries[i].category = PRIMARY
        /\ batteries[i].chargingHistory # <<>>
        /\ batteries[i].inUse = 0

\* the step sent a request
Sent == Len(server'.log) = Len(server.log) + 1
Request == server'.log[Len(server'.log)]
\* the step sent a request and the request failed
Failed == Sent /\ ~Request.ok

\* C14: when the request of a consume, a recharge, a history-entry removal,
\* an upsert or a delete fails, the change stays in the inventory and in the
\* cache, the table of the server is as it was, and the handler runs to its
\* end (a failed recharge still closes the charge modal); the cache mirrors
\* the inventory in every state, so that later operations start from the
\* change.
C14_FailureKeepsChange ==
    /\ [][Failed =>
            /\ cache' = Stored(batteries')
            /\ server'.rows = server.rows
            /\ IF Request.method = "POST"
               THEN /\ FindIndex(batteries', Request.id) # 0
                    /\ batteries' = UpdatedList(batteries, BatteryAfter(Request.id))
               ELSE /\ FindIndex(batteries', Request.id) = 0
                    /\ batteries' = RemainingList(batteries, Request.id)
            /\ \A id \in BatteryIds :
                Consumed(id) => BatteryAfter(id).quantity = Battery(id).quantity - 1
            /\ executeCharge =>
                /\ chargeModal' = ClosedModal
                /\ Len(BatteryAfter(Request.id).chargingHistory)
                     = Len(Battery(Request.id).chargingHistory) + 1
            /\ \A batteryId \in BatteryIds, eventId \in EventIds \ {NoId} :
                Trimmed(batteryId, eventId) =>
                    \A j \in 1..Len(BatteryAfter(batteryId).chargingHistory) :
                        BatteryAfter(batteryId).chargingHistory[j].id # eventId
            /\ last' # "fetchBatteries"]_vars
    /\ [](cache = Stored(batteries))

\* a consume whose request failed, then a recharge whose request went
\* through: the row of the server holds both changes
C14_Witness ==
    /\ Len(server.log) = 2
    /\ ~server.log[1].ok
    /\ server.log[2].ok
    /\ last = "executeCharge"
    /\ batteries[1].quantity = 2
    /\ server.rows[1].quantity = 2
    /\ server.rows[1].inUse = 0

Unknown(id) == \A i \in 1..Len(batteries) : batteries[i].id # id
Quiet == batteries' = batteries /\ cache' = cache /\ server' = server

\* C15: a consume, a recharge and a history-entry removal that name a
\* battery id the inventory does not hold leave the inventory and the cache as
\* they were and send no request (the table and the log of requests stay as
\* they were).
C15_UnknownIdIsNoOp ==
    [][/\ \A id \in BatteryIds : useBattery(id) /\ Unknown(id) => Quiet
       /\ executeCharge /\ Unknown(chargeModal.batteryId) => Quiet
       /\ \A batteryId \in BatteryIds, eventId \in EventIds :
            deleteHistoryEntry(batteryId, eventId) /\ Unknown(batteryId) => Quiet]_vars

\* the charge modal is open for a battery that has been deleted since, next
\* to a battery created after it
C15_Witness ==
    /\ chargeModal.isOpen
    /\ Unknown(chargeModal.batteryId)
    /\ batteries # <<>>
    /\ Len(server.log) = 2

\* C16: an upsert whose form has no name is rejected before anything is
\* changed: the inventory, the cache and the table of the server stay as they
\* were and no request is sent.
C16_NamelessRejected ==
    [][\A base \in FormBases, category \in Categories :
        SubmitForm(FormOf(base, "", category, base.quantity, base.totalQuantity), clock)
            => Quiet]_vars

\* the inventory is empty again and the form is at its defaults, without a
\* name: Save would create a battery
C16_Witness ==
    /\ batteries = <<>>
    /\ last = "deleteFromStorage"
    /\ Len(server.log) = 1
    /\ IdLeft

\* the step is an upsert: saveBattery is the one handler that leaves its name
\* in `last`, and the charge modal's steps, which keep `last`, write no battery
Upsert == last' = "saveBattery"
\* the batteries the step put into the inventory or changed there
Upserted ==
    {i \in 1..Len(batteries') : i > Len(batteries) \/ batteries'[i] # batteries[i]}

\* C17: the battery an upsert with category PRIMARY or BUTTON_CELL leaves has
\* totalQuantity = quantity, for every submitted quantity >= 0, quantity 0
\* included.
C17_ConsumableTotalIsQuantity ==
    [][Upsert =>
        \A i \in Upserted :
            Consumable(batteries'[i]) /\ batteries'[i].quantity >= 0
                => batteries'[i].totalQuantity = batteries'[i].quantity]_vars

NumericFields ==
    {"quantity", "totalQuantity", "minQuantity", "inUse", "usageAccumulator"}
RechargeableFields == {"capacityMah", "chargeCycles"}

\* C18: a numeric field that the form of an upsert does not hold (quantity,
\* totalQuantity, minQuantity, inUse, usageAccumulator, and capacityMah and
\* chargeCycles when the category is RECHARGEABLE) is 0 in the battery the
\* upsert leaves.
C18_MissingNumberIsZero ==
    [][\A base \in FormBases, category \in Categories, now \in Times :
        /\ base.id # UNDEFINED
        /\ SubmitForm(FormOf(base, "AA", category, base.quantity, base.totalQuantity), now)
        => \A field \in NumericFields \cup
                        (IF category = RECHARGEABLE THEN RechargeableFields ELSE {}) :
              base[field] = UNDEFINED => BatteryAfter(base.id)[field] = 0]_vars

\* C19: the battery an upsert with category PRIMARY or BUTTON_CELL leaves has
\* inUse = 0 and chargeCycles, capacityMah and lastCharged undefined, also
\* when the battery was RECHARGEABLE before the upsert.
C19_ConsumableFieldsCleared ==
    [][Upsert =>
        \A i \in Upserted :
            Consumable(batteries'[i]) =>
                /\ batteries'[i].inUse = 0
                /\ batteries'[i].chargeCycles = UNDEFINED
                /\ batteries'[i].capacityMah = UNDEFINED
                /\ batteries'[i].lastCharged = UNDEFINED]_vars

\* a battery that was consumed and recharged as RECHARGEABLE, saved as
\* BUTTON_CELL
C19_Witness ==
    /\ last = "saveBattery"
    /\ \E i \in 1..Len(batteries) :
        /\ batteries[i].category = BUTTON_CELL
        /\ batteries[i].chargingHistory # <<>>
        /\ batteries[i].chargingHistory[1].count = 1
        /\ batteries[i].lastCharged = UNDEFINED

\* the entries of a list that carry the id
WithId(list, id) == {i \in 1..Len(list) : list[i].id = id}
\* the entries of a list that do not carry the id, in their order
Others(list, id) == RemainingList(list, id)

\* C20: after an upsert payload (a battery with its id) has been written and
\* stored once, writing and storing the same payload again changes neither the
\* inventory nor the stored rows: the inventory and the table each hold
\* exactly one entity of that id, with the payload's values, and every other
\* entity is as it was before.
C20_UpsertIdempotent ==
    [][Sent /\ Request.method = "POST" /\ Request.ok =>
        LET id == Request.id
            payload == BatteryAfter(id)
            row == ServerRow(JsonBattery(payload))
        IN /\ Cardinality(WithId(batteries', id)) = 1
           /\ Cardinality(WithId(server'.rows, id)) = 1
           /\ \A i \in WithId(server'.rows, id) : server'.rows[i] = row
           /\ Others(batteries', id) = Others(batteries, id)
           /\ Others(server'.rows, id) = Others(server.rows, id)
           /\ UpdatedList(batteries', payload) = batteries'
           /\ ReplacedRows(server'.rows, row) = server'.rows
           /\ (Known(id) /\ Battery(id) = payload
                    /\ \E i \in WithId(server.rows, id) : server.rows[i] = row)
               => /\ batteries' = batteries
                  /\ cache' = cache
                  /\ {server'.rows[i] : i \in 1..Len(server'.rows)}
                        = {server.rows[i] : i \in 1..Len(server.rows)}]_vars

\* a payload stored twice over: the removal of a ledger entry writes the
\* battery without the entry, and a second removal (of an id the ledger no
\* longer holds) writes the same battery again
C20_Witness ==
    /\ Len(server.log) = 2
    /\ server.log[1] = [method |-> "POST", id |-> 1, ok |-> TRUE]
    /\ server.log[2] = server.log[1]
    /\ last = "deleteHistoryEntry"
    /\ batteries[1].chargingHistory = <<>>
    /\ batteries[1].quantity = SyncRow.quantity
    /\ server.rows = <<ServerRow(JsonBattery(batteries[1]))>>

Ids(list) == {list[i].id : i \in 1..Len(list)}
\* the step wrote a battery into the inventory through the named handler
Wrote(handler) == last' = handler /\ batteries' # batteries

\* C21: in every reachable state no two batteries of the inventory share an
\* id: an upsert without id adds one battery, whose id no battery of the
\* inventory carries, and leaves the others in place; an upsert with an id
\* of the inventory (an edit), a consume, a recharge and a history-entry
\* removal keep the id of every battery and the place it has in the list.
C21_UniqueIds ==
    /\ [](\A i, j \in 1..Len(batteries) :
            i # j => batteries[i].id # batteries[j].id)
    /\ [][/\ Upsert /\ nextId' # nextId =>
                /\ Len(batteries') = Len(batteries) + 1
                /\ SubSeq(batteries', 1, Len(batteries)) = batteries
                /\ batteries'[Len(batteries')].id \notin Ids(batteries)
          /\ \/ Upsert /\ nextId' = nextId /\ batteries' # batteries
             \/ Wrote("useBattery")
             \/ Wrote("executeCharge")
             \/ Wrote("deleteHistoryEntry")
             => /\ Len(batteries') = Len(batteries)
                /\ \A i \in 1..Len(batteries) : batteries'[i].id = batteries[i].id]_vars

\* a battery created next to the fetched one, then edited
C21_Witness ==
    /\ Len(batteries) = 2
    /\ batteries[1].id = SyncRow.id
    /\ batteries[2].id = generateSafeId - 1
    /\ batteries[2].category = RECHARGEABLE
    /\ batteries[2].quantity = 2
    /\ Len(SelectSeq(server.log, IsWrite)) = 2
    /\ last = "saveBattery"

\* C22: a delete of a battery leaves the inventory and the cache without a
\* battery of that id (the battery goes with its ledger, in the one step),
\* keeps every other battery as it was and in its place, and sends exactly one
\* request, a DELETE for that id.
C22_DeleteRemoves ==
    [][\A id \in BatteryIds :
        deleteFromStorage(id) /\ Known(id) =>
            LET at == FindIndex(batteries, id) IN
            /\ id \notin Ids(batteries')
            /\ cache'.present
            /\ id \notin Ids(cache'.list)
            /\ Len(batteries') = Len(batteries) - 1
            /\ \A j \in 1..Len(batteries') :
                batteries'[j] = batteries[IF j < at THEN j ELSE j + 1]
            /\ Sent
            /\ Request.method = "DELETE"
            /\ Request.id = id]_vars

\* of the two batteries fetched, the one with a ledger has been deleted, in
\* the inventory and in the table
C22_Witness ==
    /\ last = "deleteFromStorage"
    /\ batteries = <<Bystander>>
    /\ cache = Stored(<<Bystander>>)
    /\ server.rows = <<Bystander>>
    /\ server.log[Len(server.log)] = [method |-> "DELETE", id |-> SyncRow.id, ok |-> TRUE]

\* the requests issued so far: answered or on their way
Issued == Len(server.log) + Len(server.flying)
IssuedAfter == Len(server'.log) + Len(server'.flying)
\* the step sent one request, of the method and for the id given
Issues(method, id) ==
    /\ server'.log = server.log
    /\ Len(server'.flying) = Len(server.flying) + 1
    /\ SubSeq(server'.flying, 1, Len(server.flying)) = server.flying
    /\ server'.flying[Len(server'.flying)].method = method
    /\ server'.flying[Len(server'.flying)].id = id

\* C23: a consume of a battery with quantity > 0, a recharge of a known
\* battery, a history-entry removal on a known battery, an upsert with a name
\* and a delete each send exactly one request (a POST, or a DELETE, for the
\* battery's id); a consume, a recharge or a removal that is refused and an
\* upsert without a name send none; and the answer to a request, a failure
\* included, sends no further request: the request leaves the ones on their
\* way and is logged once.
C23_OneRequestEach ==
    [][/\ \A id \in BatteryIds :
            /\ Consumed(id) => Issues("POST", id)
            /\ useBattery(id) /\ ~(Known(id) /\ Battery(id).quantity > 0)
                => IssuedAfter = Issued
            /\ deleteFromStorage(id) => Issues("DELETE", id)
            /\ \A eventId \in EventIds :
                deleteHistoryEntry(id, eventId) =>
                    IF Known(id) THEN Issues("POST", id) ELSE IssuedAfter = Issued
       /\ executeCharge =>
            IF Known(chargeModal.batteryId)
            THEN Issues("POST", chargeModal.batteryId)
            ELSE IssuedAfter = Issued
       /\ Upsert /\ (batteries' # batteries \/ nextId' # nextId)
            => \E id \in Ids(batteries') : Issues("POST", id)
       /\ \A base \in FormBases, category \in Categories :
            SubmitForm(FormOf(base, "", category, base.quantity, base.totalQuantity), clock)
                => IssuedAfter = Issued
       /\ \A i \in 1..Len(server.flying) :
            respond(i) =>
                /\ IssuedAfter = Issued
                /\ server'.flying = Without(server.flying, i)
                /\ Len(server'.log) = Len(server.log) + 1
       /\ IssuedAfter \in {Issued, Issued + 1}]_vars

\* a consume and a recharge whose requests both failed: two requests were
\* sent, none is on its way, and the table is as it was fetched
C23_Witness ==
    /\ server.flying = <<>>
    /\ Len(server.log) = 2
    /\ ~server.log[1].ok
    /\ ~server.log[2].ok
    /\ last = "executeCharge"
    /\ batteries[1].quantity = 2
    /\ server.rows = <<SyncRow>>

\* the writes for a battery id that have been answered
WritesFor(id) ==
    LET about(entry) == entry.id = id /\ entry.method # "GET"
    IN SelectSeq(server.log, about)
\* the row holds the counters and the ledger of the battery
SameCounters(row, b) ==
    /\ row.quantity = b.quantity
    /\ row.totalQuantity = b.totalQuantity
    /\ row.inUse = b.inUse
    /\ row.usageAccumulator = b.usageAccumulator
    /\ row.chargingHistory = b.chargingHistory

\* C24: when no request is on its way and the most recent write for the id of
\* a battery of the inventory succeeded, the table holds a row of that id with
\* the battery's quantity, totalQuantity, inUse, usageAccumulator and
\* chargingHistory, in whatever order the server handled the requests that
\* were on their way together.  Stated for the batteries all of whose writes
\* succeeded, so that the most recent one did, however "most recent" is
\* counted.
C24_StoredMatchesMemory ==
    server.flying = <<>> =>
        \A i \in 1..Len(batteries) :
            LET b == batteries[i]
                writes == WritesFor(b.id)
            IN /\ writes # <<>>
               /\ \A k \in 1..Len(writes) : writes[k].ok
               => \E j \in 1..Len(server.rows) :
                    /\ server.rows[j].id = b.id
                    /\ SameCounters(server.rows[j], b)

\* the step is the fetch of the mount, and it failed
FetchFailed ==
    /\ isLoading
    /\ Sent
    /\ Request.method = "GET"
    /\ ~Request.ok

\* C25: after every save (consume, recharge, history-entry removal, upsert)
\* and every delete the cache holds the JSON text of the inventory as the step
\* left it, whether the request succeeded or failed; when the fetch of the
\* mount fails the inventory becomes the cached list, or stays as it was when
\* there is no cache, and the cache is left alone; so once the component has
\* loaded, a cache that is present mirrors the inventory, and without one the
\* inventory is still the empty one the component started with.
C25_CacheIsLastKnownState ==
    /\ [][/\ Sent /\ Request.method # "GET"
                => cache'.present /\ cache' = Stored(batteries')
          /\ FetchFailed
                => /\ batteries' = IF cache.present THEN cache.list ELSE batteries
                   /\ cache' = cache
          /\ Failed /\ Request.method = "POST"
                => batteries' = UpdatedList(batteries, BatteryAfter(Request.id))
          /\ Failed /\ Request.method = "DELETE"
                => Request.id \notin Ids(batteries')]_vars
    /\ [](~isLoading =>
            IF cache.present THEN cache = Stored(batteries) ELSE batteries = <<>>)

\* the fetch failed and the cached list became the inventory; a recharge then
\* moved its two units in use, its request failing as well
C25_Witness ==
    /\ ~isLoading
    /\ Len(server.log) = 2
    /\ server.log[1] = [method |-> "GET", id |-> NoId, ok |-> FALSE]
    /\ ~server.log[2].ok
    /\ last = "executeCharge"
    /\ Len(batteries) = 1
    /\ batteries[1].quantity = CachedRow.quantity + 2
    /\ batteries[1].inUse = 0
    /\ cache = Stored(batteries)
    /\ server.rows = <<SyncRow, Bystander>>

NumericColumns == NumericFields \cup RechargeableFields
\* the row holds what the body holds; a field the body does not hold, or
\* holds empty, is at the default of the build
HoldsPayload(row, b) ==
    /\ row.id = b.id
    /\ row.name = b.name
    /\ row.category = b.category
    /\ row.brand = b.brand
    /\ b.size # "" => row.size = b.size
    /\ \A field \in NumericColumns :
        b[field] \notin {UNDEFINED, NULL} => row[field] = b[field]
    /\ b.lastCharged \notin {UNDEFINED, NULL} => row.lastCharged = b.lastCharged
    /\ row.chargingHistory = b.chargingHistory

\* C27: POST /api/batteries, in either build, answers a body without id or
\* without name with an error and leaves the table as it was; for a body with
\* both it answers OK and leaves exactly one row of that id, which holds the
\* values of the body, every row of another id being as before.
C27_EndpointUpsert ==
    [][\A b \in Payloads :
        post(b) =>
            IF b.id = UNDEFINED \/ b.name = ""
            THEN /\ server'.rows = server.rows
                 /\ ~Request.ok
            ELSE /\ Request.ok
                 /\ Cardinality(WithId(server'.rows, b.id)) = 1
                 /\ \A i \in WithId(server'.rows, b.id) :
                        HoldsPayload(server'.rows[i], b)
                 /\ Others(server'.rows, b.id) = Others(server.rows, b.id)]_vars

\* the Docker build has refused a body without a name and then replaced the
\* first of its two rows
C27_Witness ==
    /\ server.docker
    /\ Len(server.log) = 2
    /\ server.log[1] = [method |-> "POST", id |-> 1, ok |-> FALSE]
    /\ server.log[2] = [method |-> "POST", id |-> 1, ok |-> TRUE]
    /\ Len(server.rows) = 2
    /\ server.rows[1] = Bystander
    /\ server.rows[2].id = 1
    /\ server.rows[2].name = "AAA"
    /\ server.rows[2].quantity = NULL

\* C28: the event that a recharge puts into a ledger has a count of at least
\* 1 and at most the inUse the battery had before the recharge; no recharge
\* records an event with count 0 or below, whatever the inUse and the category
\* of the battery the charge modal names.
C28_EventCounts ==
    [][Recharged =>
        LET b == Battery(chargeModal.batteryId)
            event == Head(BatteryAfter(chargeModal.batteryId).chargingHistory)
        IN /\ 1 <= event.count
           /\ event.count <= b.inUse]_vars

\* C29: in every state reached by upserts, consumes, recharges and
\* history-entry removals, every RECHARGEABLE battery has
\* 0 <= usageAccumulator < max(totalQuantity, 1).
C29_AccumulatorBelowBatch ==
    \A i \in 1..Len(batteries) :
        batteries[i].category = RECHARGEABLE =>
            /\ 0 <= batteries[i].usageAccumulator
            /\ batteries[i].usageAccumulator < MathMax(batteries[i].totalQuantity, 1)

\* C30: the load of the mount finishes: whether the fetch succeeds, fails
\* with a cache at hand or fails without one, isLoading becomes false and
\* stays false from then on; as long as it is true the fetch is the only step
\* taken, so that the handlers run after the load and not before.
C30_LoadFinishes ==
    /\ <>[](~isLoading)
    /\ [][~isLoading => ~isLoading']_vars
    /\ [][isLoading => fetchBatteries]_vars

\* the fetch failed with no cache at hand; the component left the loading
\* screen with an empty inventory and a battery has been created since
C30_Witness ==
    /\ ~isLoading
    /\ server.log[1] = [method |-> "GET", id |-> NoId, ok |-> FALSE]
    /\ Len(server.log) = 2
    /\ last = "saveBattery"
    /\ Len(batteries) = 1
    /\ cache = Stored(batteries)
    /\ server.rows = <<>>

====
